---- MODULE Spec2Model ----
(***************************************************************************)
(* Model of the report router of UrawaCup                                  *)
(* (src/src/backend/routes/reports.py) and of its test runner              *)
(* (src/agent-UrawaCup/agent_check.py).                                    *)
(*                                                                         *)
(* The data store is a set of tables (sequences of rows in insertion       *)
(* order).  A request handler is one action that reads or writes the store *)
(* and leaves its HTTP response in the variable response; the handler of   *)
(* the group-standings PDF takes one step per turn of its loop and answers *)
(* when the loop has ended.  The report generators of the other exports    *)
(* are outside the router: what a call of one does is an input.            *)
(*                                                                         *)
(* Strings are sequences of characters (one-character TLA+ strings, a      *)
(* kanji being written as one romanised token), so that formatting and     *)
(* parsing are real conversions.  A nullable column holds None (the empty  *)
(* tuple) or Some(v) (the one-element tuple).                              *)
(***************************************************************************)
EXTENDS Integers, Sequences, FiniteSets, TLC

VARIABLES
    tournaments,   \* ids of the rows of table tournaments
    venues,        \* ids of the rows of table venues
    teams,         \* table teams: team id -> [name, short_name]
    groups,        \* table groups: group id -> [name]
    matches,       \* table matches, rows in insertion order, goals joined
    standings,     \* table standings, rows in insertion order
    recipients,    \* table report_recipients, rows in insertion order
    sender,        \* the sender columns of table tournaments: id -> settings
    pdfmetrics,    \* the process-wide font registry of reportlab: name -> font
    export,        \* the export_group_standings_pdf request being served
    generated,     \* the number of calls the report generators have received
    waiting,       \* the export_group_standings_pdf request of a suspended thread
    agent,         \* the agent_check process: its position, results and issues
    response       \* the response of the last request

vars == <<tournaments, venues, teams, groups, matches, standings, recipients,
          sender, pdfmetrics, export, generated, waiting, agent, response>>

store == <<tournaments, venues, teams, groups, matches, standings, recipients,
           sender>>

----------------------------------------------------------------------------
(* Bounds of the model *)

MaxMatches == 2
MaxGoals == 3
MaxScore == 5
MaxPk == 2
MaxGroupRows == 3
MinLongRows == 29
MaxLongRows == 33
OverflowRows == 50
MaxRecipients == 9
MaxGenerated == 3

\* the font objects registered in the life of a process
MaxFontObjects == 3

\* the scenarios of a run of agent_check, and the messages of a stream
MaxScenarios == 2
MaxMessages == 2

----------------------------------------------------------------------------
(* Python values *)

None == <<>>

Some(v) == <<v>>

\* Python truthiness of an optional integer: None and 0 are falsy.
TruthyInt(x) == x # None /\ x[1] # 0

\* Python truthiness of an optional string: None and "" are falsy.
TruthyStr(x) == x # None /\ x[1] # <<>>

\* x or 0, for an optional integer
Or0(x) == IF TruthyInt(x) THEN x[1] ELSE 0

Digit(d) == <<"0", "1", "2", "3", "4", "5", "6", "7", "8", "9">>[d + 1]

RECURSIVE IntStr(_)
\* str(n) of a non-negative integer: its decimal digits
IntStr(n) == IF n < 10 THEN <<Digit(n)>> ELSE IntStr(n \div 10) \o <<Digit(n % 10)>>

\* format of an optional integer inside an f-string: None prints as "None"
FmtOpt(x) == IF x = None THEN <<"N", "o", "n", "e">> ELSE IntStr(x[1])

\* "%02d"
Pad2(n) == IF n < 10 THEN <<"0">> \o IntStr(n) ELSE IntStr(n)

\* match_time.strftime("%H:%M")
Strftime(t) == Pad2(t.hour) \o <<":">> \o Pad2(t.minute)

----------------------------------------------------------------------------
(* Enumerations (models.match) *)

TRAINING == "training"

MatchStages == {"preliminary", "final", TRAINING}

COMPLETED == "completed"

MatchStatuses == {"scheduled", COMPLETED}

----------------------------------------------------------------------------
(* Strings of the model *)

HalfText1 == <<"zen", "han">>

HalfText2 == <<"kou", "han">>

MinuteText == <<"fun">>

OwnGoalMark == <<"(", "O", "G", ")">>

PenaltyMark == <<"(", "P", "K", ")">>

GeneratedBy == <<"U", "r", "a", "w", "a", "C", "u", "p">>

----------------------------------------------------------------------------
(* Queries of get_report_data and get_match_reports *)

\* .filter(...) of get_report_data
ReportDataFilter(m, tournament_id, target_date) ==
    /\ m.tournament_id = tournament_id
    /\ m.match_date = target_date
    /\ m.stage # TRAINING

\* get_match_reports without its stage condition
MatchReportsFilter_NoStage(m, tournament_id, target_date) ==
    /\ m.tournament_id = tournament_id
    /\ m.match_date = target_date
    /\ m.status = COMPLETED

\* .filter(...) of get_match_reports
MatchReportsFilter(m, tournament_id, target_date) ==
    /\ m.tournament_id = tournament_id
    /\ m.match_date = target_date
    /\ m.status = COMPLETED
    /\ m.stage # TRAINING

\* if venue_id: query = query.filter(Match.venue_id == venue_id)
VenueFilter(m, venue_id) ==
    TruthyInt(venue_id) => m.venue_id = venue_id[1]

\* ORDER BY venue_id, match_order: a is not after b
MatchOrderLE(a, b) ==
    \/ a.venue_id < b.venue_id
    \/ a.venue_id = b.venue_id /\ a.match_order <= b.match_order

RECURSIVE InsertMatch(_, _)
\* m put after every row of the sorted s that is not after it
InsertMatch(s, m) ==
    IF s = <<>> THEN <<m>>
    ELSE IF MatchOrderLE(s[Len(s)], m) THEN Append(s, m)
    ELSE Append(InsertMatch(SubSeq(s, 1, Len(s) - 1), m), s[Len(s)])

\* the query without its order_by
OrderByVenueOrder_Unordered(s) == s

RECURSIVE OrderByVenueOrder(_)
\* query.order_by(Match.venue_id, Match.match_order).all(); rows that tie keep
\* the order of the table, and the table may hold them in any order
OrderByVenueOrder(s) ==
    IF s = <<>> THEN <<>>
    ELSE InsertMatch(OrderByVenueOrder(SubSeq(s, 1, Len(s) - 1)), s[Len(s)])

ReportDataQuery(tournament_id, target_date, venue_id) ==
    OrderByVenueOrder(SelectSeq(matches,
        LAMBDA m : ReportDataFilter(m, tournament_id, target_date)
                   /\ VenueFilter(m, venue_id)))

MatchReportsQuery(tournament_id, target_date, venue_id) ==
    OrderByVenueOrder(SelectSeq(matches,
        LAMBDA m : MatchReportsFilter(m, tournament_id, target_date)
                   /\ VenueFilter(m, venue_id)))

----------------------------------------------------------------------------
(* Match Report Formatter: the loop body of get_match_reports *)

\* a sort that puts a goal before the goals it ties with
GoalKeyLE_Strict(a, b) ==
    \/ a.half < b.half
    \/ a.half = b.half /\ a.minute < b.minute

\* key=lambda g: (g.half, g.minute): a is not after b
GoalKeyLE(a, b) ==
    \/ a.half < b.half
    \/ a.half = b.half /\ a.minute <= b.minute

RECURSIVE InsertGoal(_, _)
InsertGoal(s, g) ==
    IF s = <<>> THEN <<g>>
    ELSE IF GoalKeyLE(s[Len(s)], g) THEN Append(s, g)
    ELSE Append(InsertGoal(SubSeq(s, 1, Len(s) - 1), g), s[Len(s)])

RECURSIVE SortedGoals(_)
\* sorted(match.goals, key=...): Python's sort is stable
SortedGoals(s) ==
    IF s = <<>> THEN <<>>
    ELSE InsertGoal(SortedGoals(SubSeq(s, 1, Len(s) - 1)), s[Len(s)])

HalfText(goal) == IF goal.half = 1 THEN HalfText1 ELSE HalfText2

\* the penalty marker written in an elif branch
DisplayText_Elif(goal) ==
    HalfText(goal) \o IntStr(goal.minute) \o MinuteText \o <<" ">>
        \o teams[goal.team_id].name \o <<" ">> \o goal.player_name
        \o (IF goal.is_own_goal THEN OwnGoalMark
            ELSE IF goal.is_penalty THEN PenaltyMark ELSE <<>>)

DisplayText(goal) ==
    HalfText(goal) \o IntStr(goal.minute) \o MinuteText \o <<" ">>
        \o teams[goal.team_id].name \o <<" ">> \o goal.player_name
        \o (IF goal.is_own_goal THEN OwnGoalMark ELSE <<>>)
        \o (IF goal.is_penalty THEN PenaltyMark ELSE <<>>)

\* goal_id is not a field of GoalReport: it records which goal the line renders
GoalReport(goal) ==
    [minute |-> goal.minute,
     half |-> goal.half,
     team_name |-> teams[goal.team_id].name,
     player_name |-> goal.player_name,
     display_text |-> DisplayText(goal),
     goal_id |-> goal.id]

GoalReports(match) ==
    LET sorted == SortedGoals(match.goals)
    IN [i \in 1..Len(sorted) |-> GoalReport(sorted[i])]

\* the two sides written the wrong way round
ScoreText_Swapped(home, away) == IntStr(away) \o <<"-">> \o IntStr(home)

ScoreText(home, away) == IntStr(home) \o <<"-">> \o IntStr(away)

\* the shootout score written whenever one is stored
ScorePk_ByValue(match) ==
    IF match.home_pk # None
    THEN Some(FmtOpt(match.home_pk) \o <<"-">> \o FmtOpt(match.away_pk))
    ELSE None

ScorePk(match) ==
    IF match.has_penalty_shootout
    THEN Some(FmtOpt(match.home_pk) \o <<"-">> \o FmtOpt(match.away_pk))
    ELSE None

\* short_name or name
DisplayName(team) == IF TruthyStr(team.short_name) THEN team.short_name[1] ELSE team.name

HomeTeamName(match) == DisplayName(teams[match.home_team_id])

\* the away side named from the home team
AwayTeamName_Home(match) == DisplayName(teams[match.home_team_id])

AwayTeamName(match) == DisplayName(teams[match.away_team_id])

\* match_id is not a field of MatchReport: it records which match the row renders
MatchReport(match) ==
    LET h1 == Or0(match.home_score_half1)
        h2 == Or0(match.home_score_half2)
        a1 == Or0(match.away_score_half1)
        a2 == Or0(match.away_score_half2)
    IN [match_number |-> match.match_order,
        kickoff_time |-> Strftime(match.match_time),
        home_team_name |-> HomeTeamName(match),
        away_team_name |-> AwayTeamName(match),
        score_half1 |-> ScoreText(h1, a1),
        score_half2 |-> ScoreText(h2, a2),
        score_total |-> ScoreText(h1 + h2, a1 + a2),
        score_pk |-> ScorePk(match),
        goals |-> GoalReports(match),
        match_id |-> match.id]

----------------------------------------------------------------------------
(* Requests *)

TournamentIds == {1, 2, 3}

Dates == {1, 2}

VenueIds == {1, 2}

VenueParams == {None, Some(0)} \cup {Some(v) : v \in VenueIds}

NotFound(op, tournament_id) ==
    [op |-> op, tournament_id |-> tournament_id, status |-> 404]

\* a handler that creates the default recipients of a tournament that has none
\* before it reports them
get_report_data_GetOrCreate(tournament_id, target_date, venue_id) ==
    LET missing == /\ tournament_id \in tournaments
                   /\ \A k \in DOMAIN recipients :
                         recipients[k].tournament_id # tournament_id
        listed == IF missing
                  THEN recipients \o
                       <<[id |-> Len(recipients) + 1, tournament_id |-> tournament_id,
                          name |-> <<"Ishikura">>, notes |-> <<>>]>>
                  ELSE recipients
    IN /\ recipients' = listed
       /\ response' =
            IF tournament_id \notin tournaments
            THEN NotFound("get_report_data", tournament_id)
            ELSE [op |-> "get_report_data",
                  tournament_id |-> tournament_id,
                  target_date |-> target_date,
                  venue_id |-> venue_id,
                  status |-> 200,
                  body |-> [tournament |-> tournament_id,
                            date |-> target_date,
                            venue |-> IF TruthyInt(venue_id) /\ venue_id[1] \in venues
                                      THEN venue_id ELSE None,
                            matches |-> ReportDataQuery(tournament_id, target_date, venue_id),
                            recipients |-> SelectSeq(listed,
                                LAMBDA r : r.tournament_id = tournament_id),
                            generated_by |-> GeneratedBy]]
       /\ UNCHANGED <<tournaments, venues, teams, groups, matches, standings, sender,
                      pdfmetrics, export, generated, waiting, agent>>

\* GET /reports/data
get_report_data(tournament_id, target_date, venue_id) ==
    /\ response' =
         IF tournament_id \notin tournaments
         THEN NotFound("get_report_data", tournament_id)
         ELSE [op |-> "get_report_data",
               tournament_id |-> tournament_id,
               target_date |-> target_date,
               venue_id |-> venue_id,
               status |-> 200,
               body |-> [tournament |-> tournament_id,
                         date |-> target_date,
                         venue |-> IF TruthyInt(venue_id) /\ venue_id[1] \in venues
                                   THEN venue_id ELSE None,
                         matches |-> ReportDataQuery(tournament_id, target_date, venue_id),
                         recipients |-> SelectSeq(recipients,
                             LAMBDA r : r.tournament_id = tournament_id),
                         generated_by |-> GeneratedBy]]
    /\ UNCHANGED <<store, pdfmetrics, export, generated, waiting, agent>>

\* GET /reports/match-reports
get_match_reports(tournament_id, target_date, venue_id) ==
    /\ response' =
         LET found == MatchReportsQuery(tournament_id, target_date, venue_id)
         IN [op |-> "get_match_reports",
             tournament_id |-> tournament_id,
             target_date |-> target_date,
             venue_id |-> venue_id,
             status |-> 200,
             body |-> [i \in 1..Len(found) |-> MatchReport(found[i])]]
    /\ UNCHANGED <<store, pdfmetrics, export, generated, waiting, agent>>

----------------------------------------------------------------------------
(* export_group_standings_pdf: lengths are in millimetres *)

\* A4 height
PageHeight == 297

TopMargin == 20

TitleStep == 15

GroupGap == 10

BreakBelow == 80

GroupTitleStep == 8

LineStep == 5

FooterY == 15

NameChars == 15

TitleSize == 16

GroupTitleSize == 12

RowSize == 9

FooterSize == 8

Gothic == "Gothic"

Helvetica == "Helvetica"

\* the font files tried, in this order
FontFiles == <<"msgothic.ttc", "hiragino_w3.ttc">>

\* the font of a new page of a reportlab canvas
InitialFont == <<Helvetica, 12>>

Unknown == <<"U", "n", "k", "n", "o", "w", "n">>

\* str(n) of an integer
Str(n) == IF n < 0 THEN <<"-">> \o IntStr(0 - n) ELSE IntStr(n)

\* s[:n]
Prefix(s, n) == IF Len(s) <= n THEN s ELSE SubSeq(s, 1, n)

\* if group_id: query = query.filter(Standing.group_id == group_id)
StandingFilter(st, tournament_id, group_id) ==
    /\ st.tournament_id = tournament_id
    /\ TruthyStr(group_id) => st.group_id = group_id[1]

Letters == <<"A", "B", "C", "D", "E">>

CharIndex(ch) == CHOOSE i \in DOMAIN Letters : Letters[i] = ch

RECURSIVE StrLess(_, _)
\* a < b for strings
StrLess(a, b) ==
    IF b = <<>> THEN FALSE
    ELSE IF a = <<>> THEN TRUE
    ELSE IF a[1] # b[1] THEN CharIndex(a[1]) < CharIndex(b[1])
    ELSE StrLess(Tail(a), Tail(b))

\* ORDER BY group_id, rank: a is before b
StandingOrderLT(a, b) ==
    \/ StrLess(a.group_id, b.group_id)
    \/ a.group_id = b.group_id /\ a.rank < b.rank

\* query.order_by(Standing.group_id, Standing.rank).all(); rows that tie keep
\* the order of the table
OrderByGroupRank(s) == SortSeq(s, StandingOrderLT)

StandingsQuery(tournament_id, group_id) ==
    OrderByGroupRank(SelectSeq(standings,
        LAMBDA st : StandingFilter(st, tournament_id, group_id)))

\* a resolution that gives up after the first font file
FontName_FirstOnly(loadable) ==
    IF FontFiles[1] \in loadable THEN Gothic ELSE Helvetica

\* the font name chosen after trying to load the files of loadable in order
FontName(loadable) ==
    IF \E i \in DOMAIN FontFiles : FontFiles[i] \in loadable THEN Gothic ELSE Helvetica

\* how many TTFont objects have been registered as Gothic
Serial(registry) == IF Gothic \in DOMAIN registry THEN registry[Gothic].serial ELSE 0

\* TTFont('Gothic', file): a new font object at every call
TTFont(registry, file) == [file |-> file, serial |-> Serial(registry) + 1]

\* pdfmetrics after the registerFont call that succeeded, if one did: the new
\* object takes the place of the one registered under the name
RegisterFont(registry, loadable) ==
    IF FontFiles[1] \in loadable
    THEN (Gothic :> TTFont(registry, FontFiles[1])) @@ registry
    ELSE IF FontFiles[2] \in loadable
    THEN (Gothic :> TTFont(registry, FontFiles[2])) @@ registry
    ELSE registry

\* canvas.Canvas(buffer, pagesize=A4)
NewCanvas == [page |-> 1, font |-> InitialFont, ops |-> <<>>]

\* c.setFont(name, size)
SetFont(c, name, size) == [c EXCEPT !.font = <<name, size>>]

\* the c.drawString calls (or the c.line call) of one line of the page, at
\* height y of the current page in the current font
Draw(c, kind, y, what) ==
    [c EXCEPT !.ops = Append(@, [kind |-> kind, page |-> c.page, y |-> y,
                                 font |-> c.font, what |-> what])]

\* c.showPage(): the page is closed and the next one starts in the initial font
ShowPage(c) == [c EXCEPT !.page = @ + 1, !.font = InitialFont]

\* team.short_name or team.name if team else "Unknown"
StandingTeamName(standing) ==
    IF standing.team_id \in DOMAIN teams
    THEN DisplayName(teams[standing.team_id])
    ELSE Unknown

\* group.name if group else standing.group_id
GroupName(standing) ==
    IF standing.group_id \in DOMAIN groups
    THEN groups[standing.group_id].name
    ELSE standing.group_id

\* the nine cells of a row
RowCells(standing) ==
    <<Str(standing.rank), Prefix(StandingTeamName(standing), NameChars),
      Str(standing.played), Str(standing.won), Str(standing.drawn),
      Str(standing.lost), Str(standing.goals_for), Str(standing.goals_against),
      Str(standing.goal_difference)>>

\* a header that looks for room before it applies the gap between two groups
GroupHeader_BreakBeforeGap(r, standing, font_name) ==
    LET break == r.y < BreakBelow
        c1 == IF break THEN SetFont(ShowPage(r.c), font_name, GroupTitleSize) ELSE r.c
        y2 == IF break THEN PageHeight - TopMargin
              ELSE IF r.current_group # None THEN r.y - GroupGap ELSE r.y
        c2 == Draw(SetFont(c1, font_name, GroupTitleSize), "group_title", y2,
                   GroupName(standing))
        y3 == y2 - GroupTitleStep
        c3 == Draw(SetFont(c2, font_name, RowSize), "column_header", y3,
                   standing.group_id)
        y4 == y3 - LineStep
        c4 == Draw(c3, "line", y4 + 2, standing.group_id)
    IN [c |-> c4, y |-> y4, current_group |-> Some(standing.group_id)]

\* the body of `if standing.group_id != current_group:`
\* r is [c, y, current_group], the canvas, the cursor and the group being drawn
GroupHeader(r, standing, font_name) ==
    LET y1 == IF r.current_group # None THEN r.y - GroupGap ELSE r.y
        break == y1 < BreakBelow
        c1 == IF break THEN SetFont(ShowPage(r.c), font_name, GroupTitleSize) ELSE r.c
        y2 == IF break THEN PageHeight - TopMargin ELSE y1
        c2 == Draw(SetFont(c1, font_name, GroupTitleSize), "group_title", y2,
                   GroupName(standing))
        y3 == y2 - GroupTitleStep
        c3 == Draw(SetFont(c2, font_name, RowSize), "column_header", y3,
                   standing.group_id)
        y4 == y3 - LineStep
        c4 == Draw(c3, "line", y4 + 2, standing.group_id)
    IN [c |-> c4, y |-> y4, current_group |-> Some(standing.group_id)]

\* a row that moves to a new page when the cursor has passed the footer line
DrawRow_PageBreak(r, standing, font_name) ==
    LET break == r.y < FooterY
        c1 == IF break THEN ShowPage(r.c) ELSE r.c
        y1 == IF break THEN PageHeight - TopMargin ELSE r.y
    IN [r EXCEPT !.c = Draw(SetFont(c1, font_name, RowSize), "row", y1,
                            [id |-> standing.id, cells |-> RowCells(standing)]),
                 !.y = y1 - LineStep]

\* the row drawn by every turn of the loop
DrawRow(r, standing, font_name) ==
    [r EXCEPT !.c = Draw(SetFont(@, font_name, RowSize), "row", r.y,
                         [id |-> standing.id, cells |-> RowCells(standing)]),
              !.y = @ - LineStep]

\* a loop that moves on without a row when the team record is missing
DrawStanding_SkipUnknown(r, standing, font_name) ==
    IF standing.team_id \notin DOMAIN teams THEN r
    ELSE IF Some(standing.group_id) # r.current_group
    THEN DrawRow(GroupHeader(r, standing, font_name), standing, font_name)
    ELSE DrawRow(r, standing, font_name)

\* one turn of `for standing in standings:`
DrawStanding(r, standing, font_name) ==
    IF Some(standing.group_id) # r.current_group
    THEN DrawRow(GroupHeader(r, standing, font_name), standing, font_name)
    ELSE DrawRow(r, standing, font_name)

\* the footer drawn before c.save()
DrawFooter(c, font_name) ==
    Draw(SetFont(c, font_name, FooterSize), "footer", FooterY, "sender")

Filename(tournament_id, group_id) ==
    <<"group_standings_tournament_">> \o IntStr(tournament_id)
        \o (IF TruthyStr(group_id) THEN <<"_group_">> \o group_id[1] ELSE <<>>)
        \o <<".pdf">>

\* no export_group_standings_pdf request is being served
Idle == [pc |-> "idle"]

\* agent_check has not been started
NotStarted == [pc |-> "not_started"]

\* a handler that opens the canvas without looking whether the query found
\* a standing
export_group_standings_pdf_CanvasFirst(tournament_id, group_id, reportlab, loadable) ==
    LET rows == StandingsQuery(tournament_id, group_id)
        echo == [op |-> "export_group_standings_pdf",
                 tournament_id |-> tournament_id, group_id |-> group_id]
        font_name == FontName(loadable)
        y0 == PageHeight - TopMargin
    IN /\ export = Idle
       /\ IF tournament_id \notin tournaments
          THEN /\ response' = echo @@ [status |-> 404, detail |-> "tournament"]
               /\ UNCHANGED <<pdfmetrics, export>>
          ELSE IF ~reportlab
          THEN /\ response' = echo @@ [status |-> 500, detail |-> "reportlab"]
               /\ UNCHANGED <<pdfmetrics, export>>
          ELSE /\ pdfmetrics' = RegisterFont(pdfmetrics, loadable)
               /\ export' = [pc |-> "loop",
                             tournament_id |-> tournament_id,
                             group_id |-> group_id,
                             font_name |-> font_name,
                             loadable |-> loadable,
                             standings |-> rows,
                             i |-> 1,
                             c |-> Draw(SetFont(NewCanvas, font_name, TitleSize),
                                        "title", y0, tournament_id),
                             y |-> y0 - TitleStep,
                             current_group |-> None]
               /\ UNCHANGED response
       /\ UNCHANGED <<store, generated, waiting, agent>>

\* GET /reports/export/group-standings, up to the loop over the standings;
\* reportlab says whether the import of reportlab succeeds, loadable which
\* font files can be loaded
export_group_standings_pdf(tournament_id, group_id, reportlab, loadable) ==
    LET rows == StandingsQuery(tournament_id, group_id)
        echo == [op |-> "export_group_standings_pdf",
                 tournament_id |-> tournament_id, group_id |-> group_id]
        font_name == FontName(loadable)
        y0 == PageHeight - TopMargin
    IN /\ export = Idle
       /\ IF tournament_id \notin tournaments
          THEN /\ response' = echo @@ [status |-> 404, detail |-> "tournament"]
               /\ UNCHANGED <<pdfmetrics, export>>
          ELSE IF rows = <<>>
          THEN /\ response' = echo @@ [status |-> 404, detail |-> "standings"]
               /\ UNCHANGED <<pdfmetrics, export>>
          ELSE IF ~reportlab
          THEN /\ response' = echo @@ [status |-> 500, detail |-> "reportlab"]
               /\ UNCHANGED <<pdfmetrics, export>>
          ELSE /\ pdfmetrics' = RegisterFont(pdfmetrics, loadable)
               /\ export' = [pc |-> "loop",
                             tournament_id |-> tournament_id,
                             group_id |-> group_id,
                             font_name |-> font_name,
                             loadable |-> loadable,
                             standings |-> rows,
                             i |-> 1,
                             c |-> Draw(SetFont(NewCanvas, font_name, TitleSize),
                                        "title", y0, tournament_id),
                             y |-> y0 - TitleStep,
                             current_group |-> None]
               /\ UNCHANGED response
       /\ UNCHANGED <<store, generated, waiting, agent>>

\* a loop that never remembers the group it is drawing
export_group_standings_pdf_turn_ForgetGroup ==
    /\ export.pc = "loop"
    /\ export.i <= Len(export.standings)
    /\ LET r == DrawStanding([c |-> export.c, y |-> export.y,
                              current_group |-> export.current_group],
                             export.standings[export.i], export.font_name)
       IN export' = [export EXCEPT !.c = r.c, !.y = r.y, !.i = @ + 1]
    /\ UNCHANGED <<store, pdfmetrics, generated, response, waiting, agent>>

\* one turn of `for standing in standings:` of the request being served
export_group_standings_pdf_turn ==
    /\ export.pc = "loop"
    /\ export.i <= Len(export.standings)
    /\ LET r == DrawStanding([c |-> export.c, y |-> export.y,
                              current_group |-> export.current_group],
                             export.standings[export.i], export.font_name)
       IN export' = [export EXCEPT !.c = r.c, !.y = r.y,
                                   !.current_group = r.current_group,
                                   !.i = @ + 1]
    /\ UNCHANGED <<store, pdfmetrics, generated, response, waiting, agent>>

\* after the loop: the footer, c.save() and the StreamingResponse; rows (the
\* ids of the standings the query returned), y (the cursor after the loop),
\* font_name and loadable are not part of the response: they record what the
\* handler worked on
export_group_standings_pdf_return ==
    /\ export.pc = "loop"
    /\ export.i > Len(export.standings)
    /\ response' =
         [op |-> "export_group_standings_pdf",
          tournament_id |-> export.tournament_id,
          group_id |-> export.group_id,
          status |-> 200,
          filename |-> Filename(export.tournament_id, export.group_id),
          body |-> [pages |-> export.c.page,
                    ops |-> DrawFooter(export.c, export.font_name).ops],
          font_name |-> export.font_name,
          loadable |-> export.loadable,
          rows |-> [k \in 1..Len(export.standings) |-> export.standings[k].id],
          y |-> export.y]
    /\ export' = Idle
    /\ UNCHANGED <<store, pdfmetrics, generated, waiting, agent>>

\* the handler is a plain `def`: two requests are served by two threads, and
\* the thread that runs gives way to the other one between two turns
switch ==
    /\ export # waiting
    /\ export' = waiting
    /\ waiting' = export
    /\ UNCHANGED <<store, pdfmetrics, generated, response, agent>>

----------------------------------------------------------------------------
(* Report recipients.  No handler of this model deletes a row, so the key of
   a new row is its position in the table. *)

\* default_recipients of setup_default_recipients
DefaultRecipients ==
    <<[name |-> <<"Saitama", "Shimbun">>, notes |-> <<"Sports", "Bu">>],
      [name |-> <<"Terebi", "Saitama">>, notes |-> <<"Houdou", "Bu">>],
      [name |-> <<"Ishikura">>, notes |-> <<>>],
      [name |-> <<"Saitama", "Ken", "Soccer", "Kyoukai">>, notes |-> <<>>]>>

\* ReportRecipient(tournament_id=..., name=..., notes=...) once inserted as
\* row id
ReportRecipient(id, tournament_id, data) ==
    [id |-> id, tournament_id |-> tournament_id,
     name |-> data.name, notes |-> data.notes]

\* db.query(ReportRecipient).filter(tournament_id == ...).all()
RecipientsOf(tournament_id) ==
    SelectSeq(recipients, LAMBDA r : r.tournament_id = tournament_id)

\* GET /reports/recipients
get_recipients(tournament_id) ==
    /\ response' = [op |-> "get_recipients",
                    tournament_id |-> tournament_id,
                    status |-> 200,
                    body |-> RecipientsOf(tournament_id)]
    /\ UNCHANGED <<store, pdfmetrics, export, generated, waiting, agent>>

\* POST /reports/recipients
create_recipient(recipient_data) ==
    /\ Len(recipients) < MaxRecipients
    /\ IF recipient_data.tournament_id \notin tournaments
       THEN /\ response' = NotFound("create_recipient", recipient_data.tournament_id)
            /\ UNCHANGED recipients
       ELSE LET recipient == ReportRecipient(Len(recipients) + 1,
                                             recipient_data.tournament_id,
                                             recipient_data)
            IN /\ recipients' = Append(recipients, recipient)
               /\ response' = [op |-> "create_recipient",
                               tournament_id |-> recipient_data.tournament_id,
                               status |-> 201,
                               body |-> recipient]
    /\ UNCHANGED <<tournaments, venues, teams, groups, matches, standings, sender,
                   pdfmetrics, export, generated, waiting, agent>>

\* a seeding that leaves out the names the tournament already holds
DefaultRows_Upsert(tournament_id) ==
    LET missing == SelectSeq(DefaultRecipients,
            LAMBDA d : \A i \in DOMAIN recipients :
                ~(recipients[i].tournament_id = tournament_id
                  /\ recipients[i].name = d.name))
    IN [k \in DOMAIN missing |->
            ReportRecipient(Len(recipients) + k, tournament_id, missing[k])]

\* the rows the loop over default_recipients adds to the session
DefaultRows(tournament_id) ==
    [k \in DOMAIN DefaultRecipients |->
        ReportRecipient(Len(recipients) + k, tournament_id, DefaultRecipients[k])]

\* POST /reports/recipients/{tournament_id}/setup-default
setup_default_recipients(tournament_id) ==
    /\ Len(recipients) + Len(DefaultRecipients) <= MaxRecipients
    /\ IF tournament_id \notin tournaments
       THEN /\ response' = NotFound("setup_default_recipients", tournament_id)
            /\ UNCHANGED recipients
       ELSE LET created == DefaultRows(tournament_id)
            IN /\ recipients' = recipients \o created
               /\ response' = [op |-> "setup_default_recipients",
                               tournament_id |-> tournament_id,
                               status |-> 200,
                               body |-> created]
    /\ UNCHANGED <<tournaments, venues, teams, groups, matches, standings, sender,
                   pdfmetrics, export, generated, waiting, agent>>

----------------------------------------------------------------------------
(* Sender settings *)

\* the fields of SenderSettingsResponse
SenderFields == {"sender_organization", "sender_name", "sender_contact"}

\* a replacement of the whole row: a field the request leaves out becomes null
ApplyUpdate_Replace(row, update_data) ==
    [f \in DOMAIN row |-> IF f \in DOMAIN update_data THEN update_data[f] ELSE None]

\* for field, value in update_data.items(): setattr(tournament, field, value);
\* update_data holds the fields the request set (exclude_unset=True), a field
\* set to null included, and the tournament has every one of them
ApplyUpdate(row, update_data) ==
    [f \in DOMAIN row |-> IF f \in DOMAIN update_data THEN update_data[f] ELSE row[f]]

\* GET /reports/sender-settings/{tournament_id}
get_sender_settings(tournament_id) ==
    /\ response' =
         IF tournament_id \notin tournaments
         THEN NotFound("get_sender_settings", tournament_id)
         ELSE [op |-> "get_sender_settings",
               tournament_id |-> tournament_id,
               status |-> 200,
               body |-> sender[tournament_id]]
    /\ UNCHANGED <<store, pdfmetrics, export, generated, waiting, agent>>

\* PATCH /reports/sender-settings/{tournament_id}
update_sender_settings(tournament_id, settings) ==
    /\ IF tournament_id \notin tournaments
       THEN /\ response' = NotFound("update_sender_settings", tournament_id)
            /\ UNCHANGED sender
       ELSE /\ sender' = [sender EXCEPT ![tournament_id] = ApplyUpdate(@, settings)]
            /\ response' = [op |-> "update_sender_settings",
                            tournament_id |-> tournament_id,
                            settings |-> settings,
                            status |-> 200,
                            body |-> sender'[tournament_id]]
    /\ UNCHANGED <<tournaments, venues, teams, groups, matches, standings,
                   recipients, pdfmetrics, export, generated, waiting, agent>>

----------------------------------------------------------------------------
(* The exports drawn by a report generator.  What a call of a generator does
   is the caller's input: it returns a buffer or raises an exception. *)

Returned == "returned"

\* exception classes a generator can raise; UnicodeDecodeError is a subclass
\* of ValueError, HTTPException and KeyError are not
ExceptionClasses == {"ValueError", "UnicodeDecodeError", "KeyError", "HTTPException"}

Outcomes == {Returned} \cup ExceptionClasses

\* isinstance(e, ValueError)
IsValueError(e) == e \in {"ValueError", "UnicodeDecodeError"}

\* the dates of the model are the days of one month
IsoFormat(d) == <<"2", "0", "2", "5", "-", "0", "3", "-">> \o Pad2(d)

\* report_<date>[_venue<id>]<ext>
ReportFilename(target_date, venue_id, ext) ==
    <<"report_">> \o IsoFormat(target_date)
        \o (IF TruthyInt(venue_id) THEN <<"_venue">> \o IntStr(venue_id[1]) ELSE <<>>)
        \o ext

\* try: buffer = generate(...) / except Exception: 500 / StreamingResponse;
\* raised is not part of the response: it records what the call raised
ReportResponse(echo, outcome, filename) ==
    IF outcome \in ExceptionClasses
    THEN echo @@ [status |-> 500, detail |-> outcome, raised |-> Some(outcome)]
    ELSE echo @@ [status |-> 200, body |-> "buffer", filename |-> filename,
                  raised |-> None]

\* a handler that calls the generator a second time when the first call raised
export_report_pdf_Retry(tournament_id, target_date, venue_id, outcome) ==
    \E second \in Outcomes :
        LET calls == IF outcome \in ExceptionClasses THEN 2 ELSE 1
            final == IF outcome \in ExceptionClasses THEN second ELSE outcome
        IN /\ generated + calls <= MaxGenerated
           /\ generated' = generated + calls
           /\ response' = ReportResponse([op |-> "export_report_pdf",
                                          tournament_id |-> tournament_id,
                                          target_date |-> target_date,
                                          venue_id |-> venue_id],
                                         final,
                                         ReportFilename(target_date, venue_id,
                                                        <<".pdf">>))
           /\ UNCHANGED <<store, pdfmetrics, export, waiting, agent>>

\* GET /reports/export/pdf
export_report_pdf(tournament_id, target_date, venue_id, outcome) ==
    /\ generated < MaxGenerated
    /\ generated' = generated + 1
    /\ response' = ReportResponse([op |-> "export_report_pdf",
                                   tournament_id |-> tournament_id,
                                   target_date |-> target_date,
                                   venue_id |-> venue_id],
                                  outcome,
                                  ReportFilename(target_date, venue_id, <<".pdf">>))
    /\ UNCHANGED <<store, pdfmetrics, export, waiting, agent>>

\* GET /reports/export/excel
export_report_excel(tournament_id, target_date, venue_id, outcome) ==
    /\ generated < MaxGenerated
    /\ generated' = generated + 1
    /\ response' = ReportResponse([op |-> "export_report_excel",
                                   tournament_id |-> tournament_id,
                                   target_date |-> target_date,
                                   venue_id |-> venue_id],
                                  outcome,
                                  ReportFilename(target_date, venue_id, <<".xlsx">>))
    /\ UNCHANGED <<store, pdfmetrics, export, waiting, agent>>

\* a handler that answers 404 to every exception
FinalResponse_All404(echo, outcome, filename) ==
    IF outcome \in ExceptionClasses
    THEN echo @@ [status |-> 404, detail |-> outcome, raised |-> Some(outcome)]
    ELSE echo @@ [status |-> 200, body |-> "buffer", filename |-> filename,
                  raised |-> None]

\* try: buffer = generator.generate() / except ValueError: 404 /
\* except Exception: 500 / StreamingResponse
FinalResponse(echo, outcome, filename) ==
    IF outcome \in ExceptionClasses /\ IsValueError(outcome)
    THEN echo @@ [status |-> 404, detail |-> outcome, raised |-> Some(outcome)]
    ELSE IF outcome \in ExceptionClasses
    THEN echo @@ [status |-> 500, detail |-> outcome, raised |-> Some(outcome)]
    ELSE echo @@ [status |-> 200, body |-> "buffer", filename |-> filename,
                  raised |-> None]

\* GET /reports/export/final-day-schedule
export_final_day_schedule_pdf(tournament_id, target_date, outcome) ==
    /\ generated < MaxGenerated
    /\ generated' = generated + 1
    /\ response' = FinalResponse([op |-> "export_final_day_schedule_pdf",
                                  tournament_id |-> tournament_id,
                                  target_date |-> target_date],
                                 outcome,
                                 <<"final_day_schedule_">> \o IsoFormat(target_date)
                                     \o <<".pdf">>)
    /\ UNCHANGED <<store, pdfmetrics, export, waiting, agent>>

\* GET /reports/export/final-result
export_final_result_pdf(tournament_id, outcome) ==
    /\ generated < MaxGenerated
    /\ generated' = generated + 1
    /\ response' = FinalResponse([op |-> "export_final_result_pdf",
                                  tournament_id |-> tournament_id],
                                 outcome,
                                 <<"final_result_tournament_">> \o IntStr(tournament_id)
                                     \o <<".pdf">>)
    /\ UNCHANGED <<store, pdfmetrics, export, waiting, agent>>

----------------------------------------------------------------------------
(* Tournament summary *)

\* round(completed / total * 100, 1) in tenths of a percent; no quotient of
\* the model lies halfway between two tenths
CompletionRate(completed, total) ==
    IF total > 0 THEN (2000 * completed + total) \div (2 * total) ELSE 0

\* GET /reports/summary/{tournament_id}; tournament_name is left out, table
\* tournaments keeps no name in this model
get_tournament_summary(tournament_id) ==
    /\ response' =
         IF tournament_id \notin tournaments
         THEN NotFound("get_tournament_summary", tournament_id)
         ELSE LET match_stats == SelectSeq(matches,
                      LAMBDA m : m.tournament_id = tournament_id)
                  total_matches == Len(match_stats)
                  completed_matches == Len(SelectSeq(match_stats,
                      LAMBDA m : m.status = COMPLETED))
                  count(stage) == Len(SelectSeq(match_stats,
                      LAMBDA m : m.stage = stage))
                  played == {stage \in MatchStages : count(stage) > 0}
              IN [op |-> "get_tournament_summary",
                  tournament_id |-> tournament_id,
                  status |-> 200,
                  body |-> [tournament_id |-> tournament_id,
                            team_count |-> Cardinality({t \in DOMAIN teams :
                                teams[t].tournament_id = tournament_id}),
                            total_matches |-> total_matches,
                            completed_matches |-> completed_matches,
                            completion_rate |-> CompletionRate(completed_matches,
                                                               total_matches),
                            stage_counts |-> [stage \in played |-> count(stage)],
                            total_goals |-> Cardinality(UNION {
                                {<<i, k>> : k \in DOMAIN matches[i].goals} :
                                    i \in {j \in DOMAIN matches :
                                        matches[j].tournament_id = tournament_id}})]]
    /\ UNCHANGED <<store, pdfmetrics, export, generated, waiting, agent>>

----------------------------------------------------------------------------
(* The store *)

TeamTable ==
    (1 :> [tournament_id |-> 1,
           name |-> <<"U", "r", "a", "w", "a", "M", "i", "n", "a", "m", "i">>,
           short_name |-> Some(<<"U", "r", "a", "A">>)])
    @@ (2 :> [tournament_id |-> 1,
              name |-> <<"O", "m", "i", "y", "a">>, short_name |-> Some(<<>>)])
    @@ (3 :> [tournament_id |-> 2,
              name |-> <<"Y", "o", "n", "o", "H", "i", "g", "a", "s", "h", "i",
                         "J", "u", "n", "i", "o", "r", "F", "C">>,
              short_name |-> None])

\* group D has no row in table groups
GroupTable ==
    (<<"A">> :> [name |-> <<"G", "r", "o", "u", "p", "A">>])
    @@ (<<"B">> :> [name |-> <<"G", "r", "o", "u", "p", "B">>])
    @@ (<<"C">> :> [name |-> <<"G", "r", "o", "u", "p", "C">>])

PlayerName == <<"T", "a", "r", "o">>

Minutes == {3, 10}

OptScores == {None} \cup {Some(v) : v \in 0..MaxScore}

OptPks == {None} \cup {Some(v) : v \in 0..MaxPk}

\* a completed final of tournament 1 on day 1 at venue 1, no goals
DefaultMatch(id) ==
    [id |-> id,
     tournament_id |-> 1,
     match_date |-> 1,
     match_time |-> [hour |-> 9, minute |-> 30],
     venue_id |-> 1,
     match_order |-> 1,
     stage |-> "final",
     status |-> COMPLETED,
     home_team_id |-> 1,
     away_team_id |-> 2,
     home_score_half1 |-> Some(1),
     home_score_half2 |-> Some(0),
     away_score_half1 |-> Some(0),
     away_score_half2 |-> Some(0),
     has_penalty_shootout |-> FALSE,
     home_pk |-> None,
     away_pk |-> None,
     goals |-> <<>>]

Goal(id, f) ==
    [id |-> id, half |-> f.half, minute |-> f.minute, team_id |-> 1,
     player_name |-> PlayerName,
     is_own_goal |-> f.is_own_goal, is_penalty |-> f.is_penalty]

\* the sender columns of a tournament nobody has set
NoSender == [f \in SenderFields |-> None]

InitTables ==
    /\ tournaments = {1, 2}
    /\ venues = VenueIds
    /\ teams = TeamTable
    /\ groups = GroupTable
    /\ recipients = <<>>
    /\ sender = [t \in {1, 2} |-> NoSender]
    /\ pdfmetrics = <<>>
    /\ export = Idle
    /\ generated = 0
    /\ waiting = Idle
    /\ agent = NotStarted
    /\ response = [op |-> "none", status |-> 0]

\* every combination of the columns the queries read
AllQueryRows ==
    [tournament_id : {1, 2}, match_date : Dates, venue_id : VenueIds,
     match_order : {1, 2}, stage : {"final", TRAINING}, status : MatchStatuses]

\* the rows that miss the scope (tournament 1, day 1, completed, not training)
\* in at most one column
NearQueryRows ==
    {r \in AllQueryRows :
        Cardinality({c \in {"tournament_id", "match_date", "stage", "status"} :
                        r[c] # DefaultMatch(0)[c]}) <= 1}

\* stores that differ in what the queries read: a table of up to two rows takes
\* every combination of the columns, a longer table rows of NearQueryRows
InitQuery ==
    /\ InitTables
    /\ standings = <<>>
    /\ \E n \in 0..MaxMatches :
         \E f \in [1..n -> IF n <= 2 THEN AllQueryRows ELSE NearQueryRows] :
            matches = [i \in 1..n |->
                [DefaultMatch(i) EXCEPT !.tournament_id = f[i].tournament_id,
                                        !.match_date = f[i].match_date,
                                        !.venue_id = f[i].venue_id,
                                        !.match_order = f[i].match_order,
                                        !.stage = f[i].stage,
                                        !.status = f[i].status]]

\* stores of one match that differ in what the formatter reads
InitRow ==
    /\ InitTables
    /\ standings = <<>>
    /\ \/ \E h1 \in OptScores, h2 \in OptScores, a1 \in OptScores, a2 \in OptScores :
            matches = <<[DefaultMatch(1) EXCEPT !.home_score_half1 = h1,
                                                !.home_score_half2 = h2,
                                                !.away_score_half1 = a1,
                                                !.away_score_half2 = a2]>>
       \/ \E flag \in BOOLEAN, hp \in OptPks, ap \in OptPks :
            matches = <<[DefaultMatch(1) EXCEPT !.has_penalty_shootout = flag,
                                                !.home_pk = hp,
                                                !.away_pk = ap]>>
       \/ \E ht \in DOMAIN TeamTable, at \in DOMAIN TeamTable :
            matches = <<[DefaultMatch(1) EXCEPT !.home_team_id = ht,
                                                !.away_team_id = at]>>
       \/ \E n \in 0..MaxGoals :
            \E f \in [1..n -> [half : {1, 2}, minute : Minutes,
                               is_own_goal : BOOLEAN, is_penalty : BOOLEAN]] :
               matches = <<[DefaultMatch(1) EXCEPT
                               !.goals = [i \in 1..n |-> Goal(i, f[i])]]>>

\* the standing of rank `rank` in group Letters[g]; team 4 has no row in teams
Standing(tournament_id, g, rank) ==
    [tournament_id |-> tournament_id,
     group_id |-> <<Letters[g]>>,
     team_id |-> ((g + rank) % 4) + 1,
     rank |-> rank,
     played |-> 3, won |-> 1, drawn |-> 1, lost |-> 1,
     goals_for |-> 2, goals_against |-> 3, goal_difference |-> 0 - 1]

\* the standings of the groups A, B, C (tournament 1) and D (tournament 2) of
\* the sizes na, nb, nc and nd, in (group_id, rank) order
StandingsOf(na, nb, nc, nd) ==
    [k \in 1..na |-> Standing(1, 1, k)] \o [k \in 1..nb |-> Standing(1, 2, k)]
        \o [k \in 1..nc |-> Standing(1, 3, k)] \o [k \in 1..nd |-> Standing(2, 4, k)]

\* table standings holds the rows of s last first; id is the table position
StandingsTable(s) ==
    [i \in 1..Len(s) |-> [id |-> i] @@ s[Len(s) + 1 - i]]

\* stores that differ in their standings: up to MaxGroupRows rows in each of
\* the groups A, B, C, or a group A that fills most of a page (MinLongRows to
\* MaxLongRows rows) or more than a page (OverflowRows rows) before a group B
\* that is empty, short or long and a group C
InitPdf ==
    /\ InitTables
    /\ matches = <<>>
    /\ \/ \E na \in 0..MaxGroupRows, nb \in 0..MaxGroupRows, nc \in 0..MaxGroupRows,
             nd \in 0..1 :
            standings = StandingsTable(StandingsOf(na, nb, nc, nd))
       \/ \E na \in (MinLongRows..MaxLongRows) \cup {OverflowRows},
             nb \in {0, MaxGroupRows, MinLongRows, MaxLongRows}, nc \in 0..1 :
            standings = StandingsTable(StandingsOf(na, nb, nc, 0))

GroupParams == {None, Some(<<>>), Some(<<"B">>), Some(<<"E">>)}

ExportGroupStandingsPdf ==
    \E tournament_id \in TournamentIds, group_id \in GroupParams,
       reportlab \in BOOLEAN, loadable \in SUBSET {FontFiles[i] : i \in DOMAIN FontFiles} :
        export_group_standings_pdf(tournament_id, group_id, reportlab, loadable)

GetReportData ==
    \E tournament_id \in TournamentIds, target_date \in Dates, venue_id \in VenueParams :
        get_report_data(tournament_id, target_date, venue_id)

GetMatchReports ==
    \E tournament_id \in TournamentIds, target_date \in Dates, venue_id \in VenueParams :
        get_match_reports(tournament_id, target_date, venue_id)

GetTournamentSummary ==
    \E tournament_id \in TournamentIds : get_tournament_summary(tournament_id)

\* no request has been answered yet
FirstRequest == response.op = "none"

\* Both handlers leave the store alone, so the response to a request does not
\* depend on the requests answered before it: one request per behaviour
\* covers them all.
NextQuery == FirstRequest /\ (GetReportData \/ GetMatchReports \/ GetTournamentSummary)

SpecQuery == InitQuery /\ [][NextQuery]_vars

\* the requests whose scope holds the one match of InitRow
GetMatchReportsRow ==
    \E venue_id \in VenueParams : get_match_reports(1, 1, venue_id)

NextRow == FirstRequest /\ GetMatchReportsRow

SpecRow == InitRow /\ [][NextRow]_vars

\* The handler leaves the tables alone and reads no font registration of an
\* earlier request: one request per behaviour covers them all.
NextPdf ==
    \/ FirstRequest /\ ExportGroupStandingsPdf
    \/ export_group_standings_pdf_turn
    \/ export_group_standings_pdf_return

SpecPdf == InitPdf /\ [][NextPdf]_vars

\* the requests of a client that adds recipients of its own under the first
\* default name or under another name
RecipientData ==
    [tournament_id : {1, 3}, name : {DefaultRecipients[1].name, <<"Other">>},
     notes : {<<>>}]

GetRecipients == \E tournament_id \in TournamentIds : get_recipients(tournament_id)

CreateRecipient == \E recipient_data \in RecipientData : create_recipient(recipient_data)

SetupDefaultRecipients ==
    \E tournament_id \in TournamentIds : setup_default_recipients(tournament_id)

InitRecipients == InitTables /\ matches = <<>> /\ standings = <<>>

NextRecipients == GetRecipients \/ CreateRecipient \/ SetupDefaultRecipients

SpecRecipients == InitRecipients /\ [][NextRecipients]_vars

\* a store with matches, goals and standings of both tournaments
InitReadOnly ==
    /\ InitTables
    /\ matches = <<[DefaultMatch(1) EXCEPT
                       !.goals = <<Goal(1, [half |-> 1, minute |-> 7,
                                            is_own_goal |-> FALSE,
                                            is_penalty |-> FALSE])>>],
                   [DefaultMatch(2) EXCEPT !.tournament_id = 2, !.match_date = 2,
                                           !.venue_id = 2, !.status = "scheduled"]>>
    /\ standings = StandingsTable(StandingsOf(2, 1, 0, 1))

\* the requests for a standings PDF the font files of one host answer, while
\* the registry has seen fewer than MaxFontObjects fonts
ExportGroupStandingsPdfAgain ==
    /\ Serial(pdfmetrics) < MaxFontObjects
    /\ \E tournament_id \in TournamentIds, group_id \in GroupParams,
          reportlab \in BOOLEAN, loadable \in {{}, {FontFiles[1]}} :
           export_group_standings_pdf(tournament_id, group_id, reportlab, loadable)

\* one request after the other: the four reports, and the one writer that
\* gives the tournament the recipients the reports list
NextReadOnly ==
    \/ export = Idle /\ GetReportData
    \/ export = Idle /\ GetMatchReports
    \/ export = Idle /\ GetTournamentSummary
    \/ export = Idle /\ recipients = <<>> /\ SetupDefaultRecipients
    \/ ExportGroupStandingsPdfAgain
    \/ export_group_standings_pdf_turn
    \/ export_group_standings_pdf_return

SpecReadOnly == InitReadOnly /\ [][NextReadOnly]_vars

\* a store with standings of both tournaments
InitShared ==
    /\ InitTables
    /\ matches = <<>>
    /\ standings = StandingsTable(StandingsOf(2, 1, 0, 1))

\* two threads serve standings PDFs: the one that runs starts a request when
\* it has none, goes on with the one it has, or gives way to the other
NextShared ==
    \/ ExportGroupStandingsPdfAgain
    \/ export_group_standings_pdf_turn
    \/ export_group_standings_pdf_return
    \/ switch

SpecShared == InitShared /\ [][NextShared]_vars

SenderValues == {None, Some(<<"U", "r", "a", "w", "a">>), Some(<<"S", "a", "t", "o">>)}

\* settings.model_dump(exclude_unset=True) of every request body
SenderUpdates == UNION {[F -> SenderValues] : F \in SUBSET SenderFields}

GetSenderSettings ==
    \E tournament_id \in TournamentIds : get_sender_settings(tournament_id)

UpdateSenderSettings ==
    \E tournament_id \in TournamentIds, settings \in SenderUpdates :
        update_sender_settings(tournament_id, settings)

InitSender == InitTables /\ matches = <<>> /\ standings = <<>>

NextSender == GetSenderSettings \/ UpdateSenderSettings

SpecSender == InitSender /\ [][NextSender]_vars

ExportReportPdf ==
    \E tournament_id \in TournamentIds, target_date \in Dates, venue_id \in VenueParams,
       outcome \in Outcomes :
        export_report_pdf(tournament_id, target_date, venue_id, outcome)

ExportReportExcel ==
    \E tournament_id \in TournamentIds, target_date \in Dates, venue_id \in VenueParams,
       outcome \in Outcomes :
        export_report_excel(tournament_id, target_date, venue_id, outcome)

ExportFinalDaySchedulePdf ==
    \E tournament_id \in TournamentIds, target_date \in Dates, outcome \in Outcomes :
        export_final_day_schedule_pdf(tournament_id, target_date, outcome)

ExportFinalResultPdf ==
    \E tournament_id \in TournamentIds, outcome \in Outcomes :
        export_final_result_pdf(tournament_id, outcome)

InitExport == InitTables /\ matches = <<>> /\ standings = <<>>

NextExport ==
    \/ ExportReportPdf
    \/ ExportReportExcel
    \/ ExportFinalDaySchedulePdf
    \/ ExportFinalResultPdf

SpecExport == InitExport /\ [][NextExport]_vars

----------------------------------------------------------------------------
(* agent_check: the test runner.  A text is a sequence of characters; a
   Japanese word is one token, named by its reading. *)

AsciiUpper ==
    <<"A", "B", "C", "D", "E", "F", "G", "H", "I", "J", "K", "L", "M",
      "N", "O", "P", "Q", "R", "S", "T", "U", "V", "W", "X", "Y", "Z">>

AsciiLower ==
    <<"a", "b", "c", "d", "e", "f", "g", "h", "i", "j", "k", "l", "m",
      "n", "o", "p", "q", "r", "s", "t", "u", "v", "w", "x", "y", "z">>

\* str.lower()
Lower(text) ==
    [k \in DOMAIN text |->
        IF \E j \in DOMAIN AsciiUpper : AsciiUpper[j] = text[k]
        THEN AsciiLower[CHOOSE j \in DOMAIN AsciiUpper : AsciiUpper[j] = text[k]]
        ELSE text[k]]

\* keyword in text
KeywordIn(keyword, text) ==
    \E i \in 1..(Len(text) - Len(keyword) + 1) :
        SubSeq(text, i, i + Len(keyword) - 1) = keyword

\* any(keyword in text for keyword in keywords)
AnyKeywordIn(keywords, text) == \E keyword \in keywords : KeywordIn(keyword, text)

RECURSIVE Join(_)
\* "\n".join(parts)
Join(parts) ==
    IF Len(parts) = 0 THEN <<>>
    ELSE IF Len(parts) = 1 THEN parts[1]
    ELSE parts[1] \o <<"\n">> \o Join(Tail(parts))

Error == <<"e", "r", "r", "o", "r">>

Eraa == <<"eraa">>

\* error, failed, shippai, eraa, mondai, fumei, mitsukarimasen
error_keywords ==
    {Error, <<"f", "a", "i", "l", "e", "d">>, <<"shippai">>, Eraa, <<"mondai">>,
     <<"fumei">>, <<"mitsukarimasen">>}

\* fumei, wakaranai, kakunin ga hitsuyou, youchousa
question_keywords ==
    {<<"fumei">>, <<"wakaranai">>, <<"kakuningahitsuyou">>, <<"youchousa">>}

\* the scenarios of the run, by id
TEST_SCENARIOS == [k \in 1..MaxScenarios |-> <<"T", "0", "0">> \o IntStr(k)]

\* TestResult(test_id, name, category): name and category follow from the id
TestResult(test_id) == [test_id |-> test_id, status |-> None, message |-> <<>>]

\* issues after add_issue; the time of an issue is its place in the run
add_issue(issues, test_id, issue_type, description, details) ==
    Append(issues, [timestamp |-> Len(issues) + 1,
                    test_id |-> test_id,
                    type |-> issue_type,
                    description |-> description,
                    details |-> details])

\* the subtypes of a ResultMessage
Subtypes == {"success", "error_max_turns"}

RECURSIVE Consume(_, _)
\* the body of `async for message in query(...)`, message by message: r is
\* [full_response, status]
Consume(stream, r) ==
    IF stream = <<>> THEN r
    ELSE LET message == Head(stream)
             texts == SelectSeq(message.content, LAMBDA block : block # None)
             next == IF message.type = "AssistantMessage"
                     THEN [r EXCEPT !.full_response =
                              @ \o [k \in DOMAIN texts |-> texts[k][1]]]
                     ELSE IF message.type = "ResultMessage"
                     THEN [r EXCEPT !.status =
                              IF message.subtype = "success"
                              THEN Some("PASS") ELSE Some("FAIL")]
                     ELSE r
         IN Consume(Tail(stream), next)

\* the try block of run_single_test after a stream that ended: the result and
\* the issues found, as [type, description]
Verdict(test_id, stream) ==
    LET r == Consume(stream, [full_response |-> <<>>, status |-> None])
        message == Join(r.full_response)
        response_text == Lower(message)
        has_error == AnyKeywordIn(error_keywords, response_text)
        status == IF has_error THEN Some("FAIL")
                  ELSE IF r.status = None THEN Some("PASS") ELSE r.status
        found == IF has_error
                 THEN <<[type |-> IF KeywordIn(Error, response_text)
                                     \/ KeywordIn(Eraa, response_text)
                                  THEN "BUG" ELSE "QUESTION",
                         description |-> "problem"]>>
                 ELSE <<>>
        asked == IF AnyKeywordIn(question_keywords, response_text)
                 THEN <<[type |-> "QUESTION", description |-> "question"]>>
                 ELSE <<>>
    IN [result |-> [test_id |-> test_id, status |-> status, message |-> message],
        found |-> found \o asked]

\* `except Exception as e:` of run_single_test; e is str(e)
Failure(test_id, e) ==
    [result |-> [test_id |-> test_id, status |-> Some("ERROR"), message |-> e],
     found |-> <<[type |-> "ERROR", description |-> "error"]>>]

RECURSIVE AddIssues(_, _, _)
\* the add_issue calls of one test, in order
AddIssues(issues, result, found) ==
    IF found = <<>> THEN issues
    ELSE AddIssues(add_issue(issues, result.test_id, Head(found).type,
                             Head(found).description, result.message),
                   result, Tail(found))

\* ISSUES.md: the header, then one section for every save
Header == [kind |-> "header", issues |-> <<>>]

Section(issues) == [kind |-> "section", issues |-> issues]

\* IssueTracker.save(): the agent after it
save(a) ==
    IF a.issues = <<>> THEN a
    ELSE [a EXCEPT !.file = (IF @ = <<>> THEN <<Header>> ELSE @)
                                \o <<Section(a.issues)>>]

\* main() up to asyncio.run(run_all_tests(...)); file is the ISSUES.md found
main(file) ==
    /\ agent = NotStarted
    /\ agent' = [pc |-> "run_all_tests", i |-> 1, results |-> <<>>,
                 issues |-> <<>>, file |-> file, exit_code |-> None]
    /\ UNCHANGED <<store, pdfmetrics, export, generated, waiting, response>>

\* result = await run_single_test(scenario, results); raised is the exception
\* the stream raised after its messages, if it raised one
run_single_test(stream, raised) ==
    /\ agent.pc = "run_all_tests"
    /\ agent.i <= Len(TEST_SCENARIOS)
    /\ LET v == IF raised = None THEN Verdict(TEST_SCENARIOS[agent.i], stream)
                ELSE Failure(TEST_SCENARIOS[agent.i], raised[1])
       IN agent' = [agent EXCEPT
                       !.issues = AddIssues(@, v.result, v.found),
                       !.results = Append(@, v.result),
                       !.i = @ + 1]
    /\ UNCHANGED <<store, pdfmetrics, export, generated, waiting, response>>

\* the end of run_all_tests: issue_tracker.save(); return results
run_all_tests_return ==
    /\ agent.pc = "run_all_tests"
    /\ agent.i > Len(TEST_SCENARIOS)
    /\ agent' = [save(agent) EXCEPT !.pc = "print_results"]
    /\ UNCHANGED <<store, pdfmetrics, export, generated, waiting, response>>

\* print_results(results) and the exit code of main
print_results ==
    /\ agent.pc = "print_results"
    /\ agent' = [agent EXCEPT
                    !.pc = "exited",
                    !.exit_code =
                        IF \E k \in DOMAIN agent.results :
                              agent.results[k].status # Some("PASS")
                        THEN Some(1) ELSE Some(0)]
    /\ UNCHANGED <<store, pdfmetrics, export, generated, waiting, response>>

\* `except KeyboardInterrupt:` of main, the interrupt coming between two tests
\* or while the results are printed
KeyboardInterrupt ==
    /\ agent.pc \in {"run_all_tests", "print_results"}
    /\ agent' = [save(agent) EXCEPT !.pc = "exited", !.exit_code = Some(130)]
    /\ UNCHANGED <<store, pdfmetrics, export, generated, waiting, response>>

\* texts of an answer: clean, with Error, with fumei (a keyword of both
\* lists), with youchousa (a question only), with shippai
Texts ==
    {<<"O", "K">>, <<"E", "r", "r", "o", "r">>, <<"fumei">>, <<"youchousa">>,
     <<"shippai">>}

\* the messages of a stream: an answer of no block, of a block without text
\* or of one text, a result, or a message of another class
Messages ==
    [type : {"AssistantMessage"},
     content : {<<>>, <<None>>} \cup {<<Some(t)>> : t \in Texts},
     subtype : {"none"}]
        \cup [type : {"ResultMessage"}, content : {<<>>}, subtype : Subtypes]
        \cup [type : {"SystemMessage"}, content : {<<>>}, subtype : {"none"}]

Streams == UNION {[1..n -> Messages] : n \in 0..MaxMessages}

\* ISSUES.md before the run: missing, or written by an earlier run
Files ==
    {<<>>,
     <<Header, Section(<<[timestamp |-> 0, test_id |-> TEST_SCENARIOS[1],
                          type |-> "BUG", description |-> "problem",
                          details |-> <<"o", "l", "d">>]>>)>>}

Main == \E file \in Files : main(file)

RunSingleTest ==
    \E stream \in Streams, raised \in {None, Some(<<"b", "o", "o", "m">>)} :
        run_single_test(stream, raised)

InitAgent == InitTables /\ matches = <<>> /\ standings = <<>>

NextAgent ==
    \/ Main
    \/ RunSingleTest
    \/ run_all_tests_return
    \/ print_results
    \/ KeyboardInterrupt

SpecAgent == InitAgent /\ [][NextAgent]_vars

----------------------------------------------------------------------------
(* What the claims read *)

IsReportData == response.op = "get_report_data" /\ response.status = 200

IsMatchReports == response.op = "get_match_reports" /\ response.status = 200

\* the match a row of get_match_reports renders (ids are table positions)
MatchOf(row) == matches[row.match_id]

\* the ids of the matches a request for match reports should report
Qualifying(tournament_id, target_date, venue_id) ==
    {i \in DOMAIN matches :
        /\ matches[i].tournament_id = tournament_id
        /\ matches[i].match_date = target_date
        /\ venue_id # None => matches[i].venue_id = venue_id[1]
        /\ matches[i].status = COMPLETED
        /\ matches[i].stage # TRAINING}

LexLE(v1, o1, v2, o2) == v1 < v2 \/ (v1 = v2 /\ o1 <= o2)

IsDigit(c) == \E d \in 0..9 : Digit(d) = c

DigitValue(c) == CHOOSE d \in 0..9 : Digit(d) = c

RECURSIVE ParseInt(_)
\* int(s) of a string of digits
ParseInt(s) ==
    IF Len(s) = 1 THEN DigitValue(s[1])
    ELSE 10 * ParseInt(SubSeq(s, 1, Len(s) - 1)) + DigitValue(s[Len(s)])

Dashes(s) == {i \in 1..Len(s) : s[i] = "-"}

\* "H-A": digits, one dash, digits, no leading zero
IsScore(s) ==
    /\ Cardinality(Dashes(s)) = 1
    /\ \A i \in 1..Len(s) : s[i] = "-" \/ IsDigit(s[i])
    /\ \A i \in Dashes(s) :
         /\ 1 < i /\ i < Len(s)
         /\ s[1] = "0" => i = 2
         /\ s[i + 1] = "0" => i + 1 = Len(s)

\* <<H, A>> of "H-A"
ParseScore(s) ==
    LET i == CHOOSE j \in Dashes(s) : TRUE
    IN <<ParseInt(SubSeq(s, 1, i - 1)), ParseInt(SubSeq(s, i + 1, Len(s)))>>

\* a missing half score counts as 0
Goals0(x) == IF x = None THEN 0 ELSE x[1]

StartsWith(s, p) == Len(s) >= Len(p) /\ SubSeq(s, 1, Len(p)) = p

Contains(s, p) ==
    \E i \in 1..(Len(s) - Len(p) + 1) : SubSeq(s, i, i + Len(p) - 1) = p

----------------------------------------------------------------------------
(* C1: no match of stage TRAINING is among the matches of get_report_data or
   among the rows of get_match_reports, whatever the date and venue filters. *)
C1_NoTraining ==
    /\ IsReportData =>
         \A i \in DOMAIN response.body.matches :
            matches[response.body.matches[i].id].stage # TRAINING
    /\ IsMatchReports =>
         \A i \in DOMAIN response.body : MatchOf(response.body[i]).stage # TRAINING

\* a completed training match in the requested scope next to a reported match
C1_Witness ==
    /\ IsMatchReports
    /\ Len(response.body) >= 1
    /\ \E i \in DOMAIN matches :
         /\ matches[i].stage = TRAINING
         /\ matches[i].status = COMPLETED
         /\ matches[i].tournament_id = response.tournament_id
         /\ matches[i].match_date = response.target_date
         /\ response.venue_id = Some(matches[i].venue_id)

(* C2: get_match_reports returns one row for exactly the matches of the
   requested tournament, played on target_date, at the requested venue
   whenever a venue_id is supplied, COMPLETED and not TRAINING: none is
   omitted, none reported twice, and no other match gets a row. *)
C2_ExactRows ==
    IsMatchReports =>
        /\ {response.body[i].match_id : i \in DOMAIN response.body}
             = Qualifying(response.tournament_id, response.target_date, response.venue_id)
        /\ \A i \in DOMAIN response.body, j \in DOMAIN response.body :
             response.body[i].match_id = response.body[j].match_id => i = j

(* C3: the matches of get_report_data and the rows of get_match_reports are
   in ascending (venue_id, match_order) order. *)
C3_Ascending ==
    /\ IsReportData =>
         \A i \in DOMAIN response.body.matches :
            i > 1 => LexLE(response.body.matches[i - 1].venue_id,
                           response.body.matches[i - 1].match_order,
                           response.body.matches[i].venue_id,
                           response.body.matches[i].match_order)
    /\ IsMatchReports =>
         \A i \in DOMAIN response.body :
            i > 1 => LexLE(MatchOf(response.body[i - 1]).venue_id,
                           MatchOf(response.body[i - 1]).match_order,
                           MatchOf(response.body[i]).venue_id,
                           MatchOf(response.body[i]).match_order)

\* two matches are returned in the opposite of their table order
C3_Witness ==
    /\ IsMatchReports
    /\ Len(response.body) = 2
    /\ response.body[1].match_id > response.body[2].match_id
    /\ MatchOf(response.body[1]).venue_id = MatchOf(response.body[2]).venue_id

(* C4: in every row of get_match_reports, with a missing half score counted
   as 0, score_half1 reads home_h1-away_h1, score_half2 reads
   home_h2-away_h2 and score_total reads the two sums. *)
C4_Scores ==
    IsMatchReports =>
        \A i \in DOMAIN response.body :
            LET row == response.body[i]
                m == MatchOf(row)
                h1 == Goals0(m.home_score_half1)
                h2 == Goals0(m.home_score_half2)
                a1 == Goals0(m.away_score_half1)
                a2 == Goals0(m.away_score_half2)
            IN /\ IsScore(row.score_half1) /\ ParseScore(row.score_half1) = <<h1, a1>>
               /\ IsScore(row.score_half2) /\ ParseScore(row.score_half2) = <<h2, a2>>
               /\ IsScore(row.score_total)
               /\ ParseScore(row.score_total) = <<h1 + h2, a1 + a2>>

\* a row of a match with a missing half score on one side and a two-digit total
C4_Witness ==
    /\ IsMatchReports
    /\ \E i \in DOMAIN response.body :
         LET m == MatchOf(response.body[i])
         IN /\ m.home_score_half1 = None
            /\ m.home_score_half2 = Some(3)
            /\ m.away_score_half1 = Some(MaxScore)
            /\ m.away_score_half2 = Some(MaxScore)
            /\ m.away_score_half1[1] + m.away_score_half2[1] >= 10

(* C5: in every row of get_match_reports score_pk is present if and only if
   the match's penalty-shootout flag is set; when present it reads
   home_pk-away_pk, and with the flag unset it is null whatever home_pk and
   away_pk hold. *)
C5_ScorePk ==
    IsMatchReports =>
        \A i \in DOMAIN response.body :
            LET row == response.body[i]
                m == MatchOf(row)
            IN /\ row.score_pk # None <=> m.has_penalty_shootout
               /\ (row.score_pk # None /\ m.home_pk # None /\ m.away_pk # None) =>
                     /\ IsScore(row.score_pk[1])
                     /\ ParseScore(row.score_pk[1]) = <<m.home_pk[1], m.away_pk[1]>>
               /\ (row.score_pk # None /\ m.home_pk = None) =>
                     StartsWith(row.score_pk[1], <<"N", "o", "n", "e", "-">>)

\* the flag is unset, both shootout scores are stored, and score_pk is null
C5_Witness ==
    /\ IsMatchReports
    /\ \E i \in DOMAIN response.body :
         LET m == MatchOf(response.body[i])
         IN /\ ~m.has_penalty_shootout
            /\ m.home_pk = Some(MaxPk)
            /\ m.away_pk = Some(1)
            /\ response.body[i].score_pk = None

(* C6: in every row of get_match_reports home_team_name is the home team's
   short_name when that is non-empty and its full name otherwise, and
   away_team_name follows the same rule from the away team alone. *)
C6_TeamNames ==
    IsMatchReports =>
        \A i \in DOMAIN response.body :
            LET row == response.body[i]
                home == teams[MatchOf(row).home_team_id]
                away == teams[MatchOf(row).away_team_id]
                Shown(t) == IF t.short_name = None \/ t.short_name = Some(<<>>)
                            THEN t.name ELSE t.short_name[1]
            IN /\ row.home_team_name = Shown(home)
               /\ row.away_team_name = Shown(away)

\* the home side has a short name and the away side has a null one
C6_Witness ==
    /\ IsMatchReports
    /\ \E i \in DOMAIN response.body :
         LET m == MatchOf(response.body[i])
         IN /\ teams[m.home_team_id].short_name \notin {None, Some(<<>>)}
            /\ teams[m.away_team_id].short_name = None
            /\ response.body[i].away_team_name = teams[m.away_team_id].name

(* C7: for every row of get_match_reports the goals list holds exactly one
   line per goal of the match, in ascending (half, minute) order, and goals
   that tie on (half, minute) keep their input order. *)
C7_GoalOrder ==
    IsMatchReports =>
        \A i \in DOMAIN response.body :
            LET lines == response.body[i].goals
                m == MatchOf(response.body[i])
            IN /\ Len(lines) = Len(m.goals)
               /\ {lines[k].goal_id : k \in DOMAIN lines} = DOMAIN m.goals
               /\ \A k \in DOMAIN lines :
                    /\ lines[k].half = m.goals[lines[k].goal_id].half
                    /\ lines[k].minute = m.goals[lines[k].goal_id].minute
               /\ \A k \in DOMAIN lines, l \in DOMAIN lines :
                    k < l =>
                        /\ LexLE(lines[k].half, lines[k].minute,
                                 lines[l].half, lines[l].minute)
                        /\ (lines[k].half = lines[l].half
                            /\ lines[k].minute = lines[l].minute)
                              => lines[k].goal_id < lines[l].goal_id

\* three goals given out of order, two of them tying on (half, minute)
C7_Witness ==
    /\ IsMatchReports
    /\ \E i \in DOMAIN response.body :
         LET g == MatchOf(response.body[i]).goals
         IN /\ Len(g) = 3
            /\ g[1].half = 2
            /\ g[2].half = 1 /\ g[3].half = 1
            /\ g[2].minute = g[3].minute
            /\ response.body[i].goals[1].goal_id = 2

(* C8: the display text of a goal line carries the first-half label exactly
   when half = 1 and the second-half label exactly when half = 2, the marker
   (OG) if and only if is_own_goal and the marker (PK) if and only if
   is_penalty, independently of each other. *)
C8_GoalText ==
    IsMatchReports =>
        \A i \in DOMAIN response.body :
            \A k \in DOMAIN response.body[i].goals :
                LET line == response.body[i].goals[k]
                    goal == MatchOf(response.body[i]).goals[line.goal_id]
                IN /\ StartsWith(line.display_text, HalfText1) <=> goal.half = 1
                   /\ StartsWith(line.display_text, HalfText2) <=> goal.half = 2
                   /\ Contains(line.display_text, OwnGoalMark) <=> goal.is_own_goal
                   /\ Contains(line.display_text, PenaltyMark) <=> goal.is_penalty

\* a second-half goal that is both an own goal and a penalty
C8_Witness ==
    /\ IsMatchReports
    /\ \E i \in DOMAIN response.body :
         \E k \in DOMAIN response.body[i].goals :
            LET goal == MatchOf(response.body[i]).goals[response.body[i].goals[k].goal_id]
            IN goal.half = 2 /\ goal.is_own_goal /\ goal.is_penalty

IsStandingsPdf == response.op = "export_group_standings_pdf" /\ response.status = 200

\* the data rows of the document, in the order they were drawn
RowsDrawn == SelectSeq(response.body.ops, LAMBDA o : o.kind = "row")

(* C9: in export_group_standings_pdf the data rows drawn across all pages
   are the input standings: each standing of the query result is drawn
   exactly once, in input order, none is dropped, a standing whose team
   record is missing included. *)
C9_AllRowsDrawn ==
    IsStandingsPdf =>
        /\ Len(RowsDrawn) = Len(response.rows)
        /\ \A k \in DOMAIN RowsDrawn : RowsDrawn[k].what.id = response.rows[k]
        /\ \A k \in DOMAIN RowsDrawn, l \in DOMAIN RowsDrawn :
             RowsDrawn[k].what.id = RowsDrawn[l].what.id => k = l
        /\ {RowsDrawn[k].what.id : k \in DOMAIN RowsDrawn}
             = {i \in DOMAIN standings :
                   /\ standings[i].tournament_id = response.tournament_id
                   /\ response.group_id \notin {None, Some(<<>>)}
                        => standings[i].group_id = response.group_id[1]}

\* a document of two pages whose first group runs below the bottom of its
\* page, with a row of a standing that has no team record
C9_Witness ==
    /\ IsStandingsPdf
    /\ response.body.pages = 2
    /\ \E k \in DOMAIN RowsDrawn : RowsDrawn[k].y < 0 /\ RowsDrawn[k].page = 1
    /\ \E k \in DOMAIN RowsDrawn :
         /\ standings[RowsDrawn[k].what.id].team_id \notin DOMAIN teams
         /\ RowsDrawn[k].what.cells[2] = Unknown

(* C10: in the group-standings PDF the sender-organization footer line is
   drawn at the footer position on every page of the document, exactly once
   per page, whatever the number of pages. *)
C10_FooterEveryPage ==
    IsStandingsPdf =>
        \A p \in 1..response.body.pages :
            Cardinality({k \in DOMAIN response.body.ops :
                            /\ response.body.ops[k].kind = "footer"
                            /\ response.body.ops[k].page = p
                            /\ response.body.ops[k].y = FooterY}) = 1

(* C11: every report endpoint that receives a tournament_id answers 404
   when no tournament with that id exists, never with a success response or
   with 500. *)
C11_MissingTournament404 ==
    (response.op # "none" /\ response.tournament_id \notin tournaments)
        => response.status = 404

\* the standings a request for (tournament, optional group) asks for; a blank
\* group_id names no group
StandingsScope(tournament_id, group_id) ==
    {i \in DOMAIN standings :
        /\ standings[i].tournament_id = tournament_id
        /\ group_id \notin {None, Some(<<>>)} => standings[i].group_id = group_id[1]}

(* C12: export_group_standings_pdf answers 404 when the tournament does not
   exist and 404 when the (tournament, optional group) scope holds no
   standings; both are raised before the canvas is created: no font is
   registered, nothing is drawn and the response carries no document. *)
C12_NotFoundBeforeCanvas ==
    /\ response.op = "export_group_standings_pdf" =>
         /\ (response.tournament_id \notin tournaments
              \/ StandingsScope(response.tournament_id, response.group_id) = {})
            => response.status = 404
         /\ response.status = 404 =>
              /\ response.tournament_id \notin tournaments
                  \/ StandingsScope(response.tournament_id, response.group_id) = {}
              /\ "body" \notin DOMAIN response
              /\ pdfmetrics = <<>>
              /\ export = Idle
    /\ export # Idle =>
         /\ export.tournament_id \in tournaments
         /\ StandingsScope(export.tournament_id, export.group_id) # {}

\* the tournament exists and has standings, none of the requested group
C12_Witness ==
    /\ response.op = "export_group_standings_pdf"
    /\ response.status = 404
    /\ response.tournament_id \in tournaments
    /\ response.group_id # None
    /\ StandingsScope(response.tournament_id, None) # {}
    /\ pdfmetrics = <<>>

\* the matches a request for (tournament, date, optional venue) asks
\* get_report_data for
ReportDataScope(tournament_id, target_date, venue_id) ==
    {i \in DOMAIN matches :
        /\ matches[i].tournament_id = tournament_id
        /\ matches[i].match_date = target_date
        /\ venue_id # None => matches[i].venue_id = venue_id[1]
        /\ matches[i].stage # TRAINING}

(* C13: for an existing tournament whose (date, optional venue) scope matches
   no match, get_report_data answers 200 with an empty matches list and
   get_match_reports answers 200 with an empty list. *)
C13_EmptyScope ==
    /\ (/\ response.op = "get_report_data"
        /\ response.tournament_id \in tournaments
        /\ ReportDataScope(response.tournament_id, response.target_date,
                           response.venue_id) = {})
         => response.status = 200 /\ response.body.matches = <<>>
    /\ (/\ response.op = "get_match_reports"
        /\ response.tournament_id \in tournaments
        /\ Qualifying(response.tournament_id, response.target_date,
                      response.venue_id) = {})
         => response.status = 200 /\ response.body = <<>>

IsReportExport(r) == r.op \in {"export_report_pdf", "export_report_excel"}

(* C14: a request to export_report_pdf or export_report_excel calls the
   generator exactly once; when that call raises, the response is a 500
   without a document, and a document is returned only when the call
   returned normally. *)
C14_SingleCall ==
    [][IsReportExport(response') =>
          /\ generated' = generated + 1
          /\ response'.raised # None <=> response'.status = 500
          /\ response'.raised = None <=> response'.status = 200
          /\ response'.status = 500 => "body" \notin DOMAIN response'
          /\ response'.status = 200 => "body" \in DOMAIN response']_vars

\* the second call of the generator raised ValueError
C14_Witness ==
    /\ IsReportExport(response)
    /\ response.raised = Some("ValueError")
    /\ response.status = 500
    /\ generated = 2

IsFinalExport == response.op \in {"export_final_day_schedule_pdf", "export_final_result_pdf"}

(* C15: export_final_day_schedule_pdf and export_final_result_pdf answer 404
   exactly when the generator raised a ValueError, 500 exactly when it
   raised any other exception and with the PDF exactly when it returned
   normally: one of the three per request. *)
C15_ThreeOutcomes ==
    IsFinalExport =>
        LET value_error == response.raised \in {Some("ValueError"),
                                                Some("UnicodeDecodeError")}
        IN /\ response.status \in {200, 404, 500}
           /\ response.status = 404 <=> value_error
           /\ response.status = 500 <=> (response.raised # None /\ ~value_error)
           /\ response.status = 200 <=> response.raised = None
           /\ "body" \in DOMAIN response <=> response.status = 200

\* a generator that found no finals-scope data
C15_Witness ==
    /\ response.op = "export_final_day_schedule_pdf"
    /\ response.raised = Some("ValueError")
    /\ response.status = 404
    /\ "body" \notin DOMAIN response

\* the number of rows of table that tournament_id holds under name
CountOf(table, tournament_id, name) ==
    Cardinality({i \in DOMAIN table :
                    /\ table[i].tournament_id = tournament_id
                    /\ table[i].name = name})

(* C16: setup_default_recipients is not idempotent: every successful call
   appends exactly four rows, one per default name, whatever the table
   already holds, so each call adds one to the number of rows the tournament
   holds under each default name. *)
C16_FourNewRows ==
    [][(response'.op = "setup_default_recipients" /\ response'.status = 200) =>
          LET n == Len(recipients)
              t == response'.tournament_id
          IN /\ Len(recipients') = n + 4
             /\ SubSeq(recipients', 1, n) = recipients
             /\ \A k \in 1..4 :
                  /\ recipients'[n + k].tournament_id = t
                  /\ recipients'[n + k].name = DefaultRecipients[k].name
                  /\ CountOf(recipients', t, DefaultRecipients[k].name)
                       = CountOf(recipients, t, DefaultRecipients[k].name) + 1
             /\ response'.body = SubSeq(recipients', n + 1, n + 4)]_vars

\* the second call on tournament 1, which already held a row of a client:
\* every default name is now held twice
C16_Witness ==
    /\ response.op = "setup_default_recipients"
    /\ response.status = 200
    /\ response.tournament_id = 1
    /\ Len(recipients) = 9
    /\ \A k \in 2..4 : CountOf(recipients, 1, DefaultRecipients[k].name) = 2
    /\ CountOf(recipients, 1, <<"Other">>) = 1

(* C17: update_sender_settings sets the fields the request supplied and
   leaves every other field of the tournament, and every other tournament,
   as it was; a request that supplies no field changes nothing. *)
C17_OnlySuppliedFields ==
    [][response'.op = "update_sender_settings" =>
          IF response'.status = 200
          THEN LET t == response'.tournament_id
                   u == response'.settings
               IN /\ \A f \in SenderFields :
                       sender'[t][f] = IF f \in DOMAIN u THEN u[f] ELSE sender[t][f]
                  /\ \A o \in tournaments \ {t} : sender'[o] = sender[o]
                  /\ DOMAIN sender' = DOMAIN sender
                  /\ u = <<>> => sender' = sender
                  /\ response'.body = sender'[t]
          ELSE sender' = sender]_vars

\* an update of the contact of tournament 2 alone has left the name of
\* tournament 2 and the three fields of tournament 1 as earlier updates set them
C17_Witness ==
    /\ response.op = "update_sender_settings"
    /\ response.status = 200
    /\ response.tournament_id = 2
    /\ DOMAIN response.settings = {"sender_contact"}
    /\ sender[2].sender_name = Some(<<"U", "r", "a", "w", "a">>)
    /\ sender[1].sender_organization = Some(<<"U", "r", "a", "w", "a">>)
    /\ sender[1].sender_name = Some(<<"S", "a", "t", "o">>)
    /\ sender[1].sender_contact = None
    /\ sender[2].sender_contact = Some(<<"S", "a", "t", "o">>)

\* the c.drawString calls among ops
TextDraws(ops) == SelectSeq(ops, LAMBDA o : o.kind # "line")

\* what a document drawn with font_name on a host where the font files of
\* loadable can be loaded shows of the font resolution
FontResolved(font_name, loadable, ops) ==
    /\ font_name = (IF loadable = {} THEN Helvetica ELSE Gothic)
    /\ IF FontFiles[1] \in loadable THEN pdfmetrics[Gothic].file = FontFiles[1]
       ELSE IF FontFiles[2] \in loadable THEN pdfmetrics[Gothic].file = FontFiles[2]
       ELSE pdfmetrics = <<>>
    /\ ops # <<>> /\ ops[1].kind = "title"
    /\ \A k \in DOMAIN ops : ops[k].kind # "line" => ops[k].font[1] = font_name

(* C18: export_group_standings_pdf tries the font files in their fixed order,
   registers the first that loads and falls back to the built-in font if and
   only if none loads; the font is chosen once, before the title is drawn,
   every text draw of the document uses it, and no response is an error
   because of a font file. *)
C18_FontChosenOnce ==
    /\ [](/\ export # Idle =>
              FontResolved(export.font_name, export.loadable, export.c.ops)
          /\ IsStandingsPdf =>
              FontResolved(response.font_name, response.loadable, response.body.ops)
          /\ (response.op = "export_group_standings_pdf" /\ response.status # 200)
              => response.detail \in {"tournament", "standings", "reportlab"})
    /\ [][/\ export # Idle =>
              /\ pdfmetrics' = pdfmetrics
              /\ export' # Idle => export'.font_name = export.font_name
              /\ export' = Idle => response'.font_name = export.font_name
          /\ (export = Idle /\ export' # Idle) =>
              Len(TextDraws(export'.c.ops)) = 1]_vars

\* a document of two pages on a host where only the second font file loads
C18_Witness ==
    /\ IsStandingsPdf
    /\ response.loadable = {FontFiles[2]}
    /\ response.font_name = Gothic
    /\ response.body.pages = 2

\* the cursor a group title drawn right after the line prev (the document
\* title or the last row of the group before) finds, the gap between two
\* groups applied
CursorAtGroupChange(prev) ==
    IF prev.kind = "title" THEN prev.y - 15 ELSE prev.y - 5 - 10

\* every group title of ops stands at the cursor left by the line before it,
\* or at the top of a new page when that cursor was below 80 mm
BreaksAtGroupChange(ops) ==
    \A k \in DOMAIN ops :
        ops[k].kind = "group_title" =>
            /\ k > 1
            /\ ops[k - 1].kind \in {"title", "row"}
            /\ IF CursorAtGroupChange(ops[k - 1]) < 80
               THEN /\ ops[k].page = ops[k - 1].page + 1
                    /\ ops[k].y = 297 - 20
               ELSE /\ ops[k].page = ops[k - 1].page
                    /\ ops[k].y = CursorAtGroupChange(ops[k - 1])
            /\ ops[k].y >= 80

(* C19: at every change of group, after the gap between two groups and
   before the header block, a cursor below 80 mm starts a new page and is
   reset to the page height minus 20 mm, so every group title is drawn at or
   above 80 mm. *)
C19_BreakBeforeHeader ==
    /\ export # Idle => BreaksAtGroupChange(export.c.ops)
    /\ IsStandingsPdf => BreaksAtGroupChange(response.body.ops)

\* a group that ends above 80 mm, but less than the gap above it: the next
\* group starts page 2
C19_Witness ==
    /\ IsStandingsPdf
    /\ \E k \in DOMAIN response.body.ops :
         LET ops == response.body.ops
         IN /\ ops[k].kind = "group_title"
            /\ ops[k].page = 2
            /\ ops[k].y = 277
            /\ ops[k - 1].kind = "row"
            /\ ops[k - 1].y - 5 >= 80

\* the group a line of a header block or a row belongs to
GroupOf(o) == IF o.kind = "row" THEN standings[o.what.id].group_id ELSE o.what

\* every row of ops is on the page of the header block of its group, one
\* line (5 mm) below the line before it
RowsFollowHeader(ops) ==
    \A k \in DOMAIN ops :
        ops[k].kind = "row" =>
            /\ k > 1
            /\ ops[k - 1].kind \in {"line", "row"}
            /\ ops[k - 1].page = ops[k].page
            /\ ops[k - 1].kind = "row" =>
                 /\ GroupOf(ops[k - 1]) = GroupOf(ops[k])
                 /\ ops[k].y = ops[k - 1].y - 5
            /\ ops[k - 1].kind = "line" =>
                 /\ GroupOf(ops[k - 1]) = GroupOf(ops[k])
                 /\ ops[k].y = ops[k - 1].y - 2
            /\ \E h \in 1..(k - 1) :
                 /\ ops[h].kind = "column_header"
                 /\ GroupOf(ops[h]) = GroupOf(ops[k])
                 /\ ops[h].page = ops[k].page

(* C20: a page break is evaluated only at a change of group, never between
   two rows of a group: every row is drawn on the page of the header block of
   its group, 5 mm below the row before it even past the footer line and
   below the bottom of the page, and the document has no more pages than
   groups. *)
C20_NoBreakInsideGroup ==
    /\ [](/\ export # Idle => RowsFollowHeader(export.c.ops)
          /\ IsStandingsPdf =>
              /\ RowsFollowHeader(response.body.ops)
              /\ response.body.pages
                   <= Cardinality({standings[response.rows[k]].group_id :
                                      k \in DOMAIN response.rows}))
    /\ [][(/\ export # Idle /\ export' # Idle
           /\ export'.current_group = export.current_group) =>
              /\ export'.c.page = export.c.page
              /\ export'.y = export.y - 5]_vars

\* a document of one page whose last group runs from above the footer line
\* to below the bottom of the page
C20_Witness ==
    /\ IsStandingsPdf
    /\ response.body.pages = 1
    /\ \E k \in DOMAIN RowsDrawn, l \in DOMAIN RowsDrawn :
         /\ RowsDrawn[k].y > 15
         /\ RowsDrawn[l].y < 0
         /\ RowsDrawn[l].page = 1
         /\ standings[RowsDrawn[k].what.id].group_id
              = standings[RowsDrawn[l].what.id].group_id

\* the kinds of the lines of ops from position k on, at most n of them
KindsFrom(ops, k, n) ==
    [j \in 1..(IF Len(ops) - k + 1 < n THEN Len(ops) - k + 1 ELSE n) |->
        ops[k + j - 1].kind]

\* the groups of the rows of ops
GroupsDrawn(ops) == {GroupOf(ops[k]) : k \in {j \in DOMAIN ops : ops[j].kind = "row"}}

\* how many lines of ops are of a kind
KindCount(ops, kind) == Cardinality({k \in DOMAIN ops : ops[k].kind = kind})

\* every change of group in ops is one block: the gap of 10 mm when a group
\* was drawn before and the page goes on, the title of the group, 8 mm below
\* it the column headers of the group, then the rule, all before the first
\* row of the group; and ops has one block for each group it has rows of
HeaderBlocks(ops) ==
    /\ \A k \in DOMAIN ops :
          /\ ops[k].kind = "group_title" =>
                /\ KindsFrom(ops, k, 4) = <<"group_title", "column_header", "line", "row">>
                /\ ops[k].what = GroupName(standings[ops[k + 3].what.id])
                /\ GroupOf(ops[k + 1]) = GroupOf(ops[k + 3])
                /\ GroupOf(ops[k + 2]) = GroupOf(ops[k + 3])
                /\ ops[k + 1].page = ops[k].page /\ ops[k + 1].y = ops[k].y - 8
                /\ ops[k + 3].page = ops[k].page /\ ops[k + 3].y = ops[k].y - 13
                /\ k > 1
                /\ ops[k - 1].kind = "title" => ops[k].y = ops[k - 1].y - 15
                /\ (ops[k - 1].kind = "row" /\ ops[k - 1].page = ops[k].page) =>
                       ops[k].y = ops[k - 1].y - 5 - 10
                /\ \A h \in 1..(k - 1) :
                       ops[h].kind = "row" => GroupOf(ops[h]) # GroupOf(ops[k + 3])
          /\ ops[k].kind = "column_header" => k > 1 /\ ops[k - 1].kind = "group_title"
          /\ ops[k].kind = "row" =>
                /\ k > 1
                /\ ops[k - 1].kind = "row" => GroupOf(ops[k - 1]) = GroupOf(ops[k])
                /\ ops[k - 1].kind # "row" => k > 3 /\ ops[k - 3].kind = "group_title"
    /\ KindCount(ops, "group_title") = Cardinality(GroupsDrawn(ops))
    /\ KindCount(ops, "column_header") = Cardinality(GroupsDrawn(ops))

(* C21: every change of the group key emits, in this order and before the
   first row of the group, the gap between two groups (only when a group was
   drawn before), one group title and one row of column headers; the document
   has as many title and column-header blocks as the standings it lists have
   distinct groups. *)
C21_HeaderBlockPerGroup ==
    /\ export # Idle => HeaderBlocks(export.c.ops)
    /\ IsStandingsPdf =>
          /\ HeaderBlocks(response.body.ops)
          /\ KindCount(response.body.ops, "group_title")
                = Cardinality({standings[response.rows[k]].group_id :
                                  k \in DOMAIN response.rows})

\* a document of several groups: the first title right below the document
\* title, a later one on the same page 10 mm below the line of the last row
C21_Witness ==
    /\ IsStandingsPdf
    /\ \E k \in DOMAIN response.body.ops, l \in DOMAIN response.body.ops :
         LET ops == response.body.ops
         IN /\ ops[k].kind = "group_title" /\ ops[k - 1].kind = "title"
            /\ ops[k].y = ops[k - 1].y - 15
            /\ ops[l].kind = "group_title" /\ ops[l - 1].kind = "row"
            /\ ops[l].page = ops[l - 1].page
            /\ ops[l].y = ops[l - 1].y - 15

\* the handlers that only report
ReadOnlyOps ==
    {"get_report_data", "get_match_reports", "export_group_standings_pdf",
     "get_tournament_summary"}

(* C22: get_report_data, get_match_reports, export_group_standings_pdf and
   get_tournament_summary only read the store: a step of one of them, whether
   it answers 200 or an error, leaves every tournament, venue, team, group,
   match, goal, standing, recipient and sender record as it was. *)
C22_ReadOnlyHandlers ==
    [][(response'.op \in ReadOnlyOps \/ export' # export) =>
          /\ tournaments' = tournaments
          /\ venues' = venues
          /\ teams' = teams
          /\ groups' = groups
          /\ matches' = matches
          /\ standings' = standings
          /\ recipients' = recipients
          /\ sender' = sender]_vars

\* a report of a tournament without recipients, answered while the store
\* holds matches, goals and standings
C22_Witness ==
    /\ response.op = "get_report_data"
    /\ response.status = 200
    /\ response.body.recipients = <<>>
    /\ response.body.matches # <<>>
    /\ recipients = <<>>
    /\ standings # <<>>
    /\ pdfmetrics # <<>>

(* C23: two report requests that run at the same time share no mutable
   state, the registration of the font Gothic included: while a request that
   draws with Gothic is suspended in its loop, no step of the other request
   writes the font registry the suspended request draws and saves with. *)
C23_NoSharedState ==
    [][(/\ waiting # Idle
        /\ waiting.font_name = Gothic
        /\ waiting' = waiting) => pdfmetrics' = pdfmetrics]_vars

\* the issues the tracker holds for a test
IssuesOf(test_id) ==
    {j \in DOMAIN agent.issues : agent.issues[j].test_id = test_id}

(* C24: after run_single_test has returned, whatever the stream of messages
   was and whether or not it raised, the status of the result is PASS, FAIL
   or ERROR, and every result whose status is not PASS has at least one issue
   of its test id in the tracker. *)
C24_IssueForEveryFailure ==
    agent # NotStarted =>
        \A k \in DOMAIN agent.results :
            /\ agent.results[k].status \in {Some("PASS"), Some("FAIL"), Some("ERROR")}
            /\ agent.results[k].status # Some("PASS") =>
                  IssuesOf(agent.results[k].test_id) # {}

\* where ISSUES.md holds an issue: <<section, place in the section>>
WrittenAt(issue) ==
    {p \in UNION {{<<s, n>> : n \in DOMAIN agent.file[s].issues} :
                     s \in DOMAIN agent.file} :
        agent.file[p[1]].issues[p[2]] = issue}

(* C25: when the process has exited, after a run that completed or after a
   KeyboardInterrupt at any point, every issue added in the run is in
   ISSUES.md exactly once: the save of run_all_tests followed by the save of
   the interrupt handler of main writes no issue twice. *)
C25_WrittenExactlyOnce ==
    agent.pc = "exited" =>
        \A j \in DOMAIN agent.issues :
            Cardinality(WrittenAt(agent.issues[j])) = 1

====
